---- MODULE Spec2Model ----
(***************************************************************************)
(* Model of the testing pipeline of backend/code_tester.py.                *)
(*                                                                         *)
(* Text is modelled as a sequence of tokens, so that joining, splitting    *)
(* and prefixing are real operations.  A path is the sequence of its parts *)
(* (pathlib's Path.parts); a part is the token sequence of its name, in    *)
(* which "." is a token of its own: a.py is <<"a", ".", "py">>.  All input *)
(* paths are absolute paths of files, as get_code_from_selection collects  *)
(* them.                                                                   *)
(***************************************************************************)
EXTENDS Integers, Sequences, FiniteSets, TLC

VARIABLES
    file_paths,      \* argument file_paths (code_files_content is parallel to it)
    GEMINI_API_KEY,  \* module global: TRUE when a key is configured
    pc,              \* position inside run_testing_pipeline
    final_report,    \* the dict final_report
    module_names,    \* result of _setup_project_structure
    source_paths,    \* result of _setup_project_structure
    ws_exists,       \* the TemporaryDirectory exists
    ws_dirs,         \* directories below the Workspace root (root is <<>>)
    ws_files,        \* files below the root: path -> index of the unit it derives from (0: none)
    exc,             \* the exception in flight or handled, or NoExc
    invoked,         \* history: the stage runners called so far, in order
    completed,       \* history: stage key -> the StageResult that runner returned
    model_responses, \* history: what generate_content answered for each unit (<<>>: not asked)
    pytest_run,      \* history: what the pytest run of the coverage runner did ("none": not run)
    fn_pc,           \* position of a direct call of one of the pure functions ("idle": none)
    fn_in,           \* argument of that call
    fn_out           \* result of that call

\* the variables of a direct call of a pure function
fnvars == <<fn_pc, fn_in, fn_out>>

\* the variables of a run of run_testing_pipeline
pipevars == <<file_paths, GEMINI_API_KEY, pc, final_report, module_names, source_paths,
              ws_exists, ws_dirs, ws_files, exc, invoked, completed, model_responses,
              pytest_run>>

vars == <<pipevars, fnvars>>

-----------------------------------------------------------------------------
(* Bounds *)

MaxUnits == 2

\* longest text, in tokens, handed to a pure function that is called directly
MaxText == 6

-----------------------------------------------------------------------------
(* Text and path helpers *)

Dot == "."

DotPy == <<Dot, "py">>

Last(s) == s[Len(s)]

Front(s) == SubSeq(s, 1, Len(s) - 1)

SeqRange(s) == {s[i] : i \in 1..Len(s)}

\* positions of token t in text s
Positions(s, t) == {i \in 1..Len(s) : s[i] = t}

SetMax(S) == CHOOSE x \in S : \A y \in S : y <= x

SetMin(S) == CHOOSE x \in S : \A y \in S : x <= y

\* PurePath.suffix of a name: from the last dot on, unless that dot is the
\* first or the last character of the name
Suffix(name) ==
    IF Positions(name, Dot) = {} THEN <<>>
    ELSE LET i == SetMax(Positions(name, Dot))
         IN IF i > 1 /\ i < Len(name) THEN SubSeq(name, i, Len(name)) ELSE <<>>

\* PurePath.with_suffix('') on a relative path with at least one part
WithoutSuffix(path) ==
    LET name == Last(path)
    IN Front(path) \o <<SubSeq(name, 1, Len(name) - Len(Suffix(name)))>>

\* os.path.basename
Basename(path) == Last(path)

\* ".".join(parts)
RECURSIVE DotJoin(_)
DotJoin(parts) ==
    IF parts = <<>> THEN <<>>
    ELSE IF Len(parts) = 1 THEN parts[1]
    ELSE parts[1] \o <<Dot>> \o DotJoin(Tail(parts))

\* text.split(sep) on token level: the pieces between occurrences of sep
RECURSIVE Split(_, _)
Split(s, sep) ==
    IF Positions(s, sep) = {} THEN <<s>>
    ELSE LET i == SetMin(Positions(s, sep))
         IN <<SubSeq(s, 1, i - 1)>> \o Split(SubSeq(s, i + 1, Len(s)), sep)

\* os.path.commonpath: the longest common prefix of parts
CommonPath(paths) ==
    LET MinLen == SetMin({Len(paths[i]) : i \in 1..Len(paths)})
        Common(n) == \A i, j \in 1..Len(paths) : SubSeq(paths[i], 1, n) = SubSeq(paths[j], 1, n)
        n == SetMax({k \in 0..MinLen : Common(k)})
    IN SubSeq(paths[1], 1, n)

\* Path.relative_to(base), base being a prefix of path
RelativeTo(path, base) == SubSeq(path, Len(base) + 1, Len(path))

\* all proper and improper prefixes of a directory path, the root excluded
Ancestors(dir) == {SubSeq(dir, 1, n) : n \in 1..Len(dir)}

\* dict.get(key, default)
Get(d, key, default) == IF key \in DOMAIN d THEN d[key] ELSE default

\* the file system after write_text(path): the file is created or replaced
WriteFile(files, path, unit) ==
    [q \in (DOMAIN files) \cup {path} |-> IF q = path THEN unit ELSE files[q]]

-----------------------------------------------------------------------------
(* Inputs *)

\* the files a selection can hold: /proj/a.py, /proj/pkg/a.py, /proj/notes.txt
\* and /proj/v1.2/c.py (a directory with a dot in its name)
PathUniverse ==
    { << <<"proj">>, <<"a", Dot, "py">> >>,
      << <<"proj">>, <<"pkg">>, <<"a", Dot, "py">> >>,
      << <<"proj">>, <<"notes", Dot, "txt">> >>,
      << <<"proj">>, <<"v1", Dot, "2">>, <<"c", Dot, "py">> >> }

InputLists == UNION {[1..n -> PathUniverse] : n \in 0..MaxUnits}

-----------------------------------------------------------------------------
(* Exceptions: type name, str() text, and the place that raised it *)

NoExc == [type |-> "None", args |-> <<>>, origin |-> "none"]

Raise(type, args, origin) == [type |-> type, args |-> args, origin |-> origin]

\* str(e)
Str(e) == e.args

\* the classes except Exception does not catch
BaseOnly == {"KeyboardInterrupt", "SystemExit", "GeneratorExit"}

CatchesNarrow(e) == e.type \in {"ValueError", "RuntimeError"}

\* except Exception as e
Catches(e) == e.type \notin BaseOnly

-----------------------------------------------------------------------------
(* final_report *)

EmptyDict == [k \in {} |-> 0]

Placeholder(msg) == [success |-> FALSE, message |-> <<msg>>]

StageKeys == {"pynguin_test_generation", "gemini_test_generation",
              "coverage_analysis", "mutation_testing"}

InitialReport ==
    [summary |-> EmptyDict,
     pynguin_test_generation |-> Placeholder("Pynguin step did not run."),
     gemini_test_generation |-> Placeholder("Gemini step did not run."),
     coverage_analysis |-> Placeholder("Coverage step did not run."),
     mutation_testing |-> Placeholder("Mutation step did not run.")]

-----------------------------------------------------------------------------
(* _setup_project_structure *)

InitPy == <<"__init__", Dot, "py">>

Tests == <<"tests">>

HasAnySuffix(path) == Suffix(Last(path)) # <<>>

\* original_path.suffix == ".py"
IsPy(path) == Suffix(Last(path)) = DotPy

\* the loop over the units, from unit i on; st.raised stops it
RECURSIVE SetupLoop(_, _, _)
SetupLoop(paths, i, st) ==
    IF i > Len(paths) \/ st.raised # NoExc THEN st
    ELSE IF ~IsPy(paths[i]) THEN SetupLoop(paths, i + 1, st)
    ELSE LET rel == RelativeTo(paths[i], CommonPath(paths))
         IN IF Ancestors(Front(rel)) \cap DOMAIN st.files # {}
            THEN [st EXCEPT !.raised =
                     Raise("FileExistsError", <<"[Errno 17] File exists">>, "setup")]
            ELSE IF rel = <<>> \/ rel \in st.dirs
            THEN [st EXCEPT !.raised =
                     Raise("IsADirectoryError", <<"[Errno 21] Is a directory">>, "setup")]
            ELSE SetupLoop(paths, i + 1,
                     [files |-> WriteFile(st.files, rel, i),
                      dirs |-> st.dirs \cup Ancestors(Front(rel)),
                      source_paths |-> Append(st.source_paths, rel),
                      module_names |-> Append(st.module_names, DotJoin(WithoutSuffix(rel))),
                      raised |-> NoExc])

\* for d in root.rglob('**/'): (d / '__init__.py').touch()
TouchMarkers(files, dirs) ==
    LET markers == {d \o <<InitPy>> : d \in dirs \cup {<<>>}}
    IN [q \in (DOMAIN files) \cup markers |-> IF q \in DOMAIN files THEN files[q] ELSE 0]

SetupProjectStructure(paths) ==
    LET st == SetupLoop(paths, 1,
                  [files |-> EmptyDict, dirs |-> {}, source_paths |-> <<>>,
                   module_names |-> <<>>, raised |-> NoExc])
    IN IF st.raised # NoExc THEN st
       ELSE [st EXCEPT !.files = TouchMarkers(st.files, st.dirs)]

\* the index of the unit the k-th module name was made from
UnitOfModule(paths, k) ==
    CHOOSE i \in 1..Len(paths) :
        IsPy(paths[i]) /\ Cardinality({j \in 1..i : IsPy(paths[j])}) = k

-----------------------------------------------------------------------------
(* _run_test_generation *)

ReturnCodes == {0, 1}

\* the test file Pynguin writes for a module: test_<module, dots as underscores>.py
PynguinTestFile(module) ==
    <<Tests, <<"test_">> \o [i \in 1..Len(module) |-> IF module[i] = Dot THEN "_" ELSE module[i]]
                         \o DotPy>>

\* the loop over the modules, from module k on; rcs[k] is the exit status of run k
RECURSIVE PynguinLoop(_, _, _, _, _)
PynguinLoop(paths, modules, rcs, k, acc) ==
    IF k > Len(modules) THEN acc
    ELSE IF rcs[k] = 0
    THEN PynguinLoop(paths, modules, rcs, k + 1,
             [acc EXCEPT !.generated_files = @ + 1,
                         !.files = WriteFile(@, PynguinTestFile(modules[k]),
                                             UnitOfModule(paths, k))])
    ELSE PynguinLoop(paths, modules, rcs, k + 1,
             [acc EXCEPT !.errors = Append(@, [module |-> modules[k],
                                               error |-> <<"stderr", "...">>])])

PynguinReport(modules, acc) ==
    [tool |-> "Pynguin", success |-> acc.generated_files > 0,
     modules_tested |-> Len(modules), test_suites_generated |-> acc.generated_files,
     errors |-> acc.errors]

-----------------------------------------------------------------------------
(* _run_ai_test_generation *)

\* three backquotes
Fence == "[fence]"

\* the text of an opening fence: three backquotes, python, newline
OpenFence == <<Fence, "python", "\n">>

Whitespace == {" ", "\n"}

\* str.strip()
RECURSIVE Strip(_)
Strip(s) ==
    IF s = <<>> THEN s
    ELSE IF s[1] \in Whitespace THEN Strip(Tail(s))
    ELSE IF Last(s) \in Whitespace THEN Strip(Front(s))
    ELSE s

\* re.search with DOTALL for an opening fence, a greedy group and a closing
\* fence (line 144 of code_tester.py): the match starts at the
\* first opening fence and the greedy group runs to the last fence after it
\* (the fence that begins a later opening fence counts); else the raw text
CleanedCode(text) ==
    LET opens == {i \in 1..(Len(text) - 2) : SubSeq(text, i, i + 2) = OpenFence}
        i == SetMin(opens)
        closes == {j \in (i + 3)..Len(text) : text[j] = Fence}
    IN IF opens # {} /\ closes # {}
       THEN Strip(SubSeq(text, i + 3, SetMax(closes) - 1))
       ELSE Strip(text)

\* what model.generate_content can do for one unit
GeminiResponses ==
    { [kind |-> "raise"],
      [kind |-> "no_candidates", block_reason |-> "SAFETY"],
      [kind |-> "no_candidates"],
      [kind |-> "text", text |-> <<"Here:", "\n">> \o OpenFence
                                    \o <<"def test_x(): ...", "\n", Fence>>],
      [kind |-> "text", text |-> <<" ", "\n">>] }

GeminiTestFile(filename) == <<Tests, <<"test_gemini_">> \o filename>>

\* the exception the try block of one unit ends with, or NoExc
GeminiUnitError(response) ==
    IF response.kind = "raise"
    THEN Raise("ServiceUnavailable", <<"503 The service is unavailable.">>, "gemini")
    ELSE IF response.kind = "no_candidates"
    THEN Raise("ValueError", <<"Response was blocked by safety filters. Reason: ",
                               Get(response, "block_reason", "Unknown")>>, "gemini")
    ELSE IF CleanedCode(response.text) = <<>>
    THEN Raise("ValueError", <<"Gemini returned a valid but empty response.">>, "gemini")
    ELSE NoExc

\* a loop that ends at the first unit whose try block fails
RECURSIVE GeminiLoopStopsAtError(_, _, _, _)
GeminiLoopStopsAtError(paths, responses, i, acc) ==
    IF i > Len(paths) THEN acc
    ELSE LET filename == Basename(paths[i])
             e == GeminiUnitError(responses[i])
         IN IF e = NoExc
            THEN GeminiLoopStopsAtError(paths, responses, i + 1,
                     [acc EXCEPT !.generated_tests =
                                     Append(@, [filename |-> filename,
                                                code |-> CleanedCode(responses[i].text)]),
                                 !.files = WriteFile(@, GeminiTestFile(filename), i),
                                 !.generated_files = @ + 1])
            ELSE [acc EXCEPT !.errors = Append(@, [file |-> filename, error |-> Str(e)])]

\* the loop over the units, from unit i on; responses[i] is the model's answer for unit i
RECURSIVE GeminiLoop(_, _, _, _)
GeminiLoop(paths, responses, i, acc) ==
    IF i > Len(paths) THEN acc
    ELSE LET filename == Basename(paths[i])
             e == GeminiUnitError(responses[i])
         IN IF e = NoExc
            THEN GeminiLoop(paths, responses, i + 1,
                     [acc EXCEPT !.generated_tests =
                                     Append(@, [filename |-> filename,
                                                code |-> CleanedCode(responses[i].text)]),
                                 !.files = WriteFile(@, GeminiTestFile(filename), i),
                                 !.generated_files = @ + 1])
            ELSE GeminiLoop(paths, responses, i + 1,
                     [acc EXCEPT !.errors = Append(@, [file |-> filename, error |-> Str(e)])])

GeminiReport(paths, acc) ==
    [tool |-> "Gemini", success |-> acc.generated_files > 0,
     files_processed |-> Len(paths), test_suites_generated |-> acc.generated_files,
     errors |-> acc.errors, generated_tests |-> acc.generated_tests]

GeminiDisabled ==
    [tool |-> "Gemini", success |-> FALSE, message |-> <<"GEMINI_API_KEY not set. Skipping.">>]

-----------------------------------------------------------------------------
(* _run_coverage_analysis *)

CoverageJson == << <<"coverage", Dot, "json">> >>

\* what the pytest run can do: it cannot be launched, it leaves no report,
\* it leaves a report (with or without a totals section), or it leaves a
\* file json.load rejects
PytestRuns == {"launch_error", "no_report", "report", "report_no_totals", "malformed"}

\* ",".join(m for m in modules if m) is empty
NothingToCover(modules) == \A k \in 1..Len(modules) : modules[k] = <<>>

\* the exception the runner ends with, or NoExc
CoverageError(modules, run) ==
    IF NothingToCover(modules) THEN NoExc
    ELSE IF run = "launch_error"
    THEN Raise("FileNotFoundError", <<"[Errno 2] No such file or directory: ", "pytest">>,
               "coverage")
    ELSE IF run = "malformed"
    THEN Raise("JSONDecodeError", <<"Expecting value: line 1 column 1 (char 0)">>, "coverage")
    ELSE NoExc

\* cov_json_path.exists() after the run
CoverageFileWritten(modules, run) ==
    ~NothingToCover(modules) /\ run \in {"report", "report_no_totals", "malformed"}

\* the dict the runner returns when it does not raise
CoverageReport(modules, run) ==
    IF NothingToCover(modules)
    THEN [tool |-> "pytest-cov", success |-> FALSE, error |-> <<"No modules to cover.">>]
    ELSE IF CoverageFileWritten(modules, run)
    THEN [tool |-> "pytest-cov", success |-> TRUE,
          summary |-> IF run = "report" THEN [percent_covered_display |-> <<"87">>]
                      ELSE EmptyDict,
          files |-> "files"]
    ELSE [tool |-> "pytest-cov", success |-> FALSE, error |-> <<"pytest output">>]

-----------------------------------------------------------------------------
(* _run_mutation_testing *)

SetupCfg == << <<"setup", Dot, "cfg">> >>

NA == <<"N/A">>

MutationScoreUnstripped(stdout) ==
    LET lines == Split(stdout, "\n")
        last == Last(lines)
        parts == Split(last, "(")
    IN IF "killed" \in SeqRange(last) /\ Len(parts) > 1
       THEN Split(parts[2], ")")[1]
       ELSE NA

\* the score line 186-189 takes from the output of mutmut results
MutationScore(stdout) ==
    LET lines == Split(Strip(stdout), "\n")
        last == Last(lines)
        parts == Split(last, "(")
    IN IF "killed" \in SeqRange(last) /\ Len(parts) > 1
       THEN Split(parts[2], ")")[1]
       ELSE NA

\* what mutmut results can print in a pipeline run: a summary with a killed
\* line, or one without (SpecScore goes through the other texts)
MutmutOutputs ==
    { <<"3/4", " ", "killed", " ", "(", "75%", ")", "\n">>,
      <<"survived", " ", "4", "\n">> }

MutationReport(rc, stdout) ==
    [tool |-> "mutmut", success |-> rc = 0, score |-> MutationScore(stdout),
     raw_report |-> stdout]

-----------------------------------------------------------------------------
(* run_testing_pipeline *)

BothFailedByCount(pynguin_report, gemini_report) ==
    /\ Get(pynguin_report, "test_suites_generated", 0) = 0
    /\ Get(gemini_report, "files_processed", 0) = 0

\* line 59: not pynguin_report.get("success") and not gemini_report.get("success")
BothFailed(pynguin_report, gemini_report) ==
    /\ ~Get(pynguin_report, "success", FALSE)
    /\ ~Get(gemini_report, "success", FALSE)

SuccessSummary(cov_report, mut_report) ==
    [overall_status |-> "Success", message |-> <<"Testing pipeline completed.">>,
     coverage |-> Get(Get(cov_report, "summary", EmptyDict), "percent_covered_display", NA),
     mutation_score |-> Get(mut_report, "score", NA)]

Repr(e) == <<e.type, "(">> \o e.args \o <<")">>

\* the text line 78 puts into the summary
FailureMessage(e) == Str(e)

FreshFailureReport(report, e) ==
    [InitialReport EXCEPT !.summary = [overall_status |-> "Failure",
                                       message |-> FailureMessage(e)]]

\* line 78
FailureReport(report, e) ==
    [report EXCEPT !.summary = [overall_status |-> "Failure", message |-> FailureMessage(e)]]

Invoke(stage) == invoked' = Append(invoked, stage)

Complete(key, report) ==
    /\ final_report' = [final_report EXCEPT ![key] = report]
    /\ completed' = [k \in (DOMAIN completed) \cup {key} |->
                        IF k = key THEN report ELSE completed[k]]

RaiseTo(e) ==
    /\ exc' = e
    /\ pc' = "except"

Init ==
    /\ file_paths \in InputLists
    /\ GEMINI_API_KEY \in BOOLEAN
    /\ pc = "start"
    /\ final_report = InitialReport
    /\ module_names = <<>>
    /\ source_paths = <<>>
    /\ ws_exists = FALSE
    /\ ws_dirs = {}
    /\ ws_files = EmptyDict
    /\ exc = NoExc
    /\ invoked = <<>>
    /\ completed = EmptyDict
    /\ model_responses = <<>>
    /\ pytest_run = "none"
    /\ fn_pc = "idle"
    /\ fn_in = <<>>
    /\ fn_out = <<>>

\* line 41: with tempfile.TemporaryDirectory() as temp_dir
EnterWorkspace ==
    /\ pc = "start"
    /\ pc' = "setup"
    /\ ws_exists' = TRUE
    /\ UNCHANGED <<fnvars, model_responses, pytest_run,
                   file_paths, GEMINI_API_KEY, final_report, module_names, source_paths,
                   ws_dirs, ws_files, exc, invoked, completed>>

\* lines 46-51: materialize, check for an empty module set, create tests/
Setup ==
    /\ pc = "setup"
    /\ Invoke("setup")
    /\ LET st == SetupProjectStructure(file_paths)
       IN /\ ws_files' = st.files
          /\ IF st.raised # NoExc
             THEN /\ RaiseTo(st.raised)
                  /\ ws_dirs' = st.dirs
                  /\ UNCHANGED <<module_names, source_paths>>
             ELSE /\ module_names' = st.module_names
                  /\ source_paths' = st.source_paths
                  /\ IF st.source_paths = <<>>
                     THEN /\ RaiseTo(Raise("ValueError",
                                 <<"Setup failed: No valid Python modules found in selection.">>,
                                 "empty_module_set"))
                          /\ ws_dirs' = st.dirs
                     ELSE IF <<Tests>> \in st.dirs \/ <<Tests>> \in DOMAIN st.files
                     THEN /\ RaiseTo(Raise("FileExistsError", <<"[Errno 17] File exists">>,
                                           "mkdir_tests"))
                          /\ ws_dirs' = st.dirs
                     ELSE /\ pc' = "pynguin"
                          /\ ws_dirs' = st.dirs \cup {<<Tests>>}
                          /\ UNCHANGED exc
    /\ UNCHANGED <<fnvars, model_responses, pytest_run,
                   file_paths, GEMINI_API_KEY, final_report, ws_exists, completed>>

\* lines 53-54
RunTestGeneration ==
    /\ pc = "pynguin"
    /\ Invoke("pynguin")
    /\ \/ /\ RaiseTo(Raise("FileNotFoundError",
                           <<"[Errno 2] No such file or directory: ", "pynguin">>, "pynguin"))
          /\ UNCHANGED <<final_report, completed, ws_files>>
       \/ \E rcs \in [1..Len(module_names) -> ReturnCodes] :
            LET acc == PynguinLoop(file_paths, module_names, rcs, 1,
                           [generated_files |-> 0, errors |-> <<>>, files |-> ws_files])
            IN /\ Complete("pynguin_test_generation", PynguinReport(module_names, acc))
               /\ ws_files' = acc.files
               /\ pc' = "gemini"
               /\ UNCHANGED exc
    /\ UNCHANGED <<fnvars, model_responses, pytest_run,
                   file_paths, GEMINI_API_KEY, module_names, source_paths, ws_exists, ws_dirs>>

\* lines 56-57
RunAiTestGeneration ==
    /\ pc = "gemini"
    /\ Invoke("gemini")
    /\ IF ~GEMINI_API_KEY
       THEN /\ Complete("gemini_test_generation", GeminiDisabled)
            /\ UNCHANGED <<ws_files, model_responses>>
       ELSE \E answers \in [1..Len(file_paths) -> GeminiResponses] :
              LET acc == GeminiLoop(file_paths, answers, 1,
                             [generated_files |-> 0, errors |-> <<>>,
                              generated_tests |-> <<>>, files |-> ws_files])
              IN /\ Complete("gemini_test_generation", GeminiReport(file_paths, acc))
                 /\ ws_files' = acc.files
                 /\ model_responses' = answers
    /\ pc' = "gate"
    /\ UNCHANGED <<fnvars, pytest_run,
                   file_paths, GEMINI_API_KEY, module_names, source_paths, ws_exists, ws_dirs,
                   exc>>

GateNeverAborts ==
    /\ pc = "gate"
    /\ pc' = "coverage"
    /\ UNCHANGED <<fnvars, model_responses, pytest_run,
                   file_paths, GEMINI_API_KEY, final_report, module_names, source_paths,
                   ws_exists, ws_dirs, ws_files, exc, invoked, completed>>

\* lines 59-60
Gate ==
    /\ pc = "gate"
    /\ IF BothFailed(final_report.pynguin_test_generation, final_report.gemini_test_generation)
       THEN RaiseTo(Raise("RuntimeError",
                          <<"All test generation methods failed, cannot proceed.">>,
                          "both_generators_failed"))
       ELSE /\ pc' = "coverage"
            /\ UNCHANGED exc
    /\ UNCHANGED <<fnvars, model_responses, pytest_run,
                   file_paths, GEMINI_API_KEY, final_report, module_names, source_paths,
                   ws_exists, ws_dirs, ws_files, invoked, completed>>

\* lines 62-63
RunCoverageAnalysis ==
    /\ pc = "coverage"
    /\ Invoke("coverage")
    /\ \E run \in PytestRuns :
         /\ pytest_run' = IF NothingToCover(module_names) THEN "none" ELSE run
         /\ ws_files' = IF CoverageFileWritten(module_names, run)
                        THEN WriteFile(ws_files, CoverageJson, 0) ELSE ws_files
         /\ IF CoverageError(module_names, run) # NoExc
            THEN /\ RaiseTo(CoverageError(module_names, run))
                 /\ UNCHANGED <<final_report, completed>>
            ELSE /\ Complete("coverage_analysis", CoverageReport(module_names, run))
                 /\ pc' = "mutation"
                 /\ UNCHANGED exc
    /\ UNCHANGED <<fnvars, model_responses,
                   file_paths, GEMINI_API_KEY, module_names, source_paths, ws_exists, ws_dirs>>

\* lines 65-66
RunMutationTesting ==
    /\ pc = "mutation"
    /\ Invoke("mutation")
    /\ ws_files' = WriteFile(ws_files, SetupCfg, 0)
    /\ \/ /\ RaiseTo(Raise("FileNotFoundError",
                           <<"[Errno 2] No such file or directory: ", "mutmut">>, "mutation"))
          /\ UNCHANGED <<final_report, completed>>
       \/ \E rc \in ReturnCodes, stdout \in MutmutOutputs :
            /\ Complete("mutation_testing", MutationReport(rc, stdout))
            /\ pc' = "summary"
            /\ UNCHANGED exc
    /\ UNCHANGED <<fnvars, model_responses, pytest_run,
                   file_paths, GEMINI_API_KEY, module_names, source_paths, ws_exists, ws_dirs>>

\* lines 68-72
Summarize ==
    /\ pc = "summary"
    /\ final_report' = [final_report EXCEPT !.summary =
                           SuccessSummary(final_report.coverage_analysis,
                                          final_report.mutation_testing)]
    /\ pc' = "finally"
    /\ UNCHANGED <<fnvars, model_responses, pytest_run,
                   file_paths, GEMINI_API_KEY, module_names, source_paths, ws_exists, ws_dirs,
                   ws_files, exc, invoked, completed>>

\* lines 74-78: except Exception as e
Except ==
    /\ pc = "except"
    /\ final_report' = IF Catches(exc) THEN FailureReport(final_report, exc) ELSE final_report
    /\ pc' = "finally"
    /\ UNCHANGED <<fnvars, model_responses, pytest_run,
                   file_paths, GEMINI_API_KEY, module_names, source_paths, ws_exists, ws_dirs,
                   ws_files, exc, invoked, completed>>

ReturnLeavingWorkspace ==
    /\ pc = "finally"
    /\ pc' = "returned"
    /\ UNCHANGED <<fnvars, model_responses, pytest_run,
                   file_paths, GEMINI_API_KEY, final_report, module_names, source_paths,
                   ws_exists, ws_dirs, ws_files, exc, invoked, completed>>

\* lines 79-83 and the end of the with block: the return in finally hands
\* final_report to the caller, and leaving the with block deletes the directory
Return ==
    /\ pc = "finally"
    /\ pc' = "returned"
    /\ ws_exists' = FALSE
    /\ ws_dirs' = {}
    /\ ws_files' = EmptyDict
    /\ UNCHANGED <<fnvars, model_responses, pytest_run,
                   file_paths, GEMINI_API_KEY, final_report, module_names, source_paths,
                   exc, invoked, completed>>

Next ==
    \/ EnterWorkspace
    \/ Setup
    \/ RunTestGeneration
    \/ RunAiTestGeneration
    \/ Gate
    \/ RunCoverageAnalysis
    \/ RunMutationTesting
    \/ Summarize
    \/ Except
    \/ Return

Spec == Init /\ [][Next]_vars

-----------------------------------------------------------------------------
(* Properties of run_testing_pipeline *)

Returned == pc = "returned"

OverallStatus == Get(final_report.summary, "overall_status", "missing")

SummaryMessage == Get(final_report.summary, "message", <<>>)

\* text contains sub as a contiguous piece
Contains(text, sub) ==
    \E i \in 0..(Len(text) - Len(sub)) : SubSeq(text, i + 1, i + Len(sub)) = sub

Ran(key) == key \in DOMAIN completed

MeasurementsArePlaceholders ==
    /\ final_report.coverage_analysis = InitialReport.coverage_analysis
    /\ final_report.mutation_testing = InitialReport.mutation_testing
    /\ "coverage" \notin SeqRange(invoked)
    /\ "mutation" \notin SeqRange(invoked)

\* C1: when both generation runners returned success = false, the returned
\* report has overall_status "Failure" and its coverage and mutation entries
\* are the initial placeholders, neither measurement runner having been
\* called; and no returned report is a Success whose two generation entries
\* both have success = false.
C1_BothGeneratorsFailedIsFailure ==
    /\ (/\ Returned
        /\ Ran("pynguin_test_generation") /\ Ran("gemini_test_generation")
        /\ ~completed.pynguin_test_generation.success
        /\ ~completed.gemini_test_generation.success)
       => (OverallStatus = "Failure" /\ MeasurementsArePlaceholders)
    /\ (Returned /\ OverallStatus = "Success")
       => (\/ final_report.pynguin_test_generation.success
           \/ final_report.gemini_test_generation.success)

\* both runners ran, every Pynguin run and every model request failed, and the call returned
C1_Witness ==
    /\ Returned
    /\ Ran("pynguin_test_generation") /\ Ran("gemini_test_generation")
    /\ Len(completed.pynguin_test_generation.errors) > 0
    /\ Get(completed.gemini_test_generation, "files_processed", 0) > 0
    /\ ~completed.gemini_test_generation.success
    /\ exc.origin = "both_generators_failed"

\* C2: whenever run_testing_pipeline has returned, on any path, the Workspace
\* directory and every file and directory written under it are gone.
C2_WorkspaceDeletedOnReturn ==
    Returned => (~ws_exists /\ ws_files = EmptyDict /\ ws_dirs = {})

\* the call returned through the exception path after tests had been written
C2_Witness ==
    /\ Returned
    /\ exc.origin = "coverage"
    /\ Ran("gemini_test_generation")
    /\ Get(completed.gemini_test_generation, "test_suites_generated", 0) > 0
    /\ ~ws_exists

\* C3: the call always ends by returning a report that has the four stage
\* entries and a summary whose overall_status is "Success" or "Failure", and
\* it is "Failure" whenever an exception was raised inside the pipeline.
C3_AlwaysACompleteReport ==
    Returned =>
        /\ StageKeys \subseteq DOMAIN final_report
        /\ OverallStatus \in {"Success", "Failure"}
        /\ (exc # NoExc => OverallStatus = "Failure")

\* a stage raised (the tool could not be launched) and the call returned a Failure report
C3_Witness ==
    /\ Returned
    /\ exc.type = "FileNotFoundError"
    /\ OverallStatus = "Failure"

\* C4 as stated: after an abort the summary message carries both the type
\* name of the exception and its message.
C4_MessageHasTypeAndText ==
    (Returned /\ exc # NoExc) =>
        (Contains(SummaryMessage, <<exc.type>>) /\ Contains(SummaryMessage, Str(exc)))

\* C4 amended: after an abort the summary message is exactly the message of
\* the exception, str(e); the type name is not added to it.
C4_MessageIsExceptionText ==
    (Returned /\ exc # NoExc) => (OverallStatus = "Failure" /\ SummaryMessage = exc.args)

\* the gate aborted the run and the call returned
C4_Witness ==
    /\ Returned
    /\ exc.type = "RuntimeError"
    /\ SummaryMessage = <<"All test generation methods failed, cannot proceed.">>

\* C5: a returned Failure report holds, for every stage runner that returned,
\* exactly the StageResult it returned, and the placeholder for every other stage.
C5_CompletedStagesKept ==
    (Returned /\ OverallStatus = "Failure") =>
        \A key \in StageKeys :
            final_report[key] = IF Ran(key) THEN completed[key] ELSE InitialReport[key]

\* three runners returned, the fourth raised
C5_Witness ==
    /\ Returned
    /\ OverallStatus = "Failure"
    /\ exc.origin = "mutation"
    /\ Ran("coverage_analysis")
    /\ final_report.coverage_analysis.tool = "pytest-cov"
    /\ final_report.mutation_testing = InitialReport.mutation_testing

\* C6: a returned report is a Failure only through one of the two aggregate
\* checks, the empty module set or both generators failed; no other error
\* ends the pipeline.
C6_OnlyAggregateChecksAbort ==
    (Returned /\ OverallStatus = "Failure") =>
        exc.origin \in {"empty_module_set", "both_generators_failed"}

\* the file a module name stands for: dots become separators, .py is appended
ModuleFile(module) ==
    LET parts == Split(module, Dot)
    IN Front(parts) \o <<Last(parts) \o DotPy>>

PyUnits == {i \in 1..Len(file_paths) : Suffix(Last(file_paths[i])) = DotPy}

\* C7: for a non-empty list of units _setup_project_structure completes and
\* returns one module name per unit with the .py suffix, each non-empty and
\* each naming a file that exists under the Workspace root.
C7_OneModulePerPyUnit ==
    (invoked = <<"setup">> /\ Len(file_paths) > 0) =>
        /\ exc.origin # "setup"
        /\ Len(module_names) = Cardinality(PyUnits)
        /\ \A k \in 1..Len(module_names) :
               module_names[k] # <<>> /\ ModuleFile(module_names[k]) \in DOMAIN ws_files

\* C8: when no unit has the .py suffix the call returns a Failure report made
\* by the "No valid Python modules found" error, no runner was called, the four
\* stage entries are the placeholders, and nothing of the Workspace is left.
C8_NoPyUnitsFailsBeforeRunners ==
    (Returned /\ PyUnits = {}) =>
        /\ exc.type = "ValueError"
        /\ exc.args = <<"Setup failed: No valid Python modules found in selection.">>
        /\ invoked = <<"setup">>
        /\ OverallStatus = "Failure"
        /\ SummaryMessage = exc.args
        /\ \A key \in StageKeys : final_report[key] = InitialReport[key]
        /\ ~ws_exists /\ ws_files = EmptyDict /\ ws_dirs = {}

\* a list of one or more units, none a .py file, went through the call
C8_Witness ==
    /\ Returned
    /\ Len(file_paths) > 0
    /\ PyUnits = {}
    /\ exc.origin = "empty_module_set"

\* C9: at no point of a run does the Workspace hold a file that derives from
\* a unit without the .py suffix, and such a unit gives no module name.
C9_ExcludedUnitLeavesNoFile ==
    /\ \A q \in DOMAIN ws_files : ws_files[q] = 0 \/ ws_files[q] \in PyUnits
    /\ Len(module_names) <= Cardinality(PyUnits)

\* whether a StageResult carries useful output: a generated suite, a parsed
\* coverage report, a mutation score
Useful(key, result) ==
    IF key = "pynguin_test_generation" THEN Get(result, "test_suites_generated", 0) > 0
    ELSE IF key = "gemini_test_generation" THEN Get(result, "generated_tests", <<>>) # <<>>
    ELSE IF key = "coverage_analysis" THEN "summary" \in DOMAIN result
    ELSE Get(result, "score", NA) # NA

\* C10: every StageResult a runner returned has success = true exactly when
\* the stage produced useful output.
C10_SuccessIffUsefulOutput ==
    \A key \in DOMAIN completed : completed[key].success <=> Useful(key, completed[key])

-----------------------------------------------------------------------------
(* Stage order *)

StageOrder == <<"setup", "pynguin", "gemini", "coverage", "mutation">>

GatePassed ==
    /\ Ran("pynguin_test_generation") /\ Ran("gemini_test_generation")
    /\ \/ completed.pynguin_test_generation.success
       \/ completed.gemini_test_generation.success

\* the calls made so far are the first calls of the fixed order, each made
\* once, each after the earlier runners returned, the measurements only
\* after the gate let the run pass
InOrder ==
    /\ Len(invoked) <= Len(StageOrder)
    /\ invoked = SubSeq(StageOrder, 1, Len(invoked))
    /\ Len(invoked) >= 2 => (module_names # <<>> /\ (ws_exists => <<Tests>> \in ws_dirs))
    /\ Len(invoked) >= 3 => Ran("pynguin_test_generation")
    /\ Len(invoked) >= 4 => GatePassed
    /\ Len(invoked) >= 5 => Ran("coverage_analysis")
    /\ OverallStatus = "Success" => (Len(invoked) = 5 /\ Ran("mutation_testing"))
    /\ \A key \in StageKeys : Ran(key) => ~(pc \in {"start", "setup"})

\* C11: the stages are entered in the order materialize, search-based
\* generation, AI-prompted generation, gate, coverage, mutation, report; each
\* is called at most once and only after the earlier ones returned, coverage
\* only when a generator succeeded, mutation only after coverage returned,
\* and every call is made while the Workspace exists.
C11_StagesInStrictOrder ==
    /\ []InOrder
    /\ [][invoked' # invoked => (ws_exists /\ ws_exists')]_vars

\* a run went through all five calls and returned a Success report
C11_Witness ==
    /\ Returned
    /\ invoked = StageOrder
    /\ OverallStatus = "Success"

-----------------------------------------------------------------------------
(* Properties of _run_ai_test_generation *)

\* the runner was called with a key and has returned
AiRunnerReturned == Ran("gemini_test_generation") /\ GEMINI_API_KEY

AiResult == completed.gemini_test_generation

\* the units whose response carried no candidates
BlockedUnits == {i \in 1..Len(model_responses) : model_responses[i].kind = "no_candidates"}

BlockedText == "Response was blocked by safety filters. Reason: "

\* the entries of the errors list that report a blocked response
BlockedEntries ==
    {k \in 1..Len(AiResult.errors) :
        AiResult.errors[k].error # <<>> /\ AiResult.errors[k].error[1] = BlockedText}

\* the n-th smallest element of a set of numbers
Nth(S, n) == CHOOSE x \in S : Cardinality({y \in S : y < x}) = n - 1

\* the test files of this runner that are in the test-output area
AiTestFiles ==
    {q \in DOMAIN ws_files : Len(q) = 2 /\ q[1] = Tests /\ q[2][1] = "test_gemini_"}

\* a unit yielded a persisted test
SomeTestPersisted == AiTestFiles # {} \/ AiResult.generated_tests # <<>>

\* C12: each unit whose response has zero candidates adds exactly one entry
\* for that unit, with a non-empty reason, to the errors list; the units
\* after it are still processed; and success is true whenever another unit
\* yielded a persisted test.
C12_BlockedUnitIsOneError ==
    AiRunnerReturned =>
        /\ Cardinality(BlockedEntries) = Cardinality(BlockedUnits)
        /\ \A n \in 1..Cardinality(BlockedUnits) :
               LET entry == AiResult.errors[Nth(BlockedEntries, n)]
               IN /\ entry.file = Last(file_paths[Nth(BlockedUnits, n)])
                  /\ Len(entry.error) = 2
                  /\ entry.error[2] \notin {"", " "}
        /\ Len(AiResult.errors) + Len(AiResult.generated_tests) = Len(file_paths)
        /\ AiResult.files_processed = Len(file_paths)
        /\ SomeTestPersisted => AiResult.success

\* the first unit was blocked, the second one yielded a test, and the stage succeeded
C12_Witness ==
    /\ AiRunnerReturned
    /\ Len(file_paths) >= 2
    /\ 1 \in BlockedUnits
    /\ model_responses[2].kind = "text"
    /\ AiTestFiles # {}
    /\ Len(AiResult.errors) = 1
    /\ AiResult.success

-----------------------------------------------------------------------------
(* Direct calls of the pure functions: no pipeline run is in progress *)

NoPipeline ==
    /\ file_paths = <<>>
    /\ GEMINI_API_KEY = FALSE
    /\ pc = "idle"
    /\ final_report = InitialReport
    /\ module_names = <<>>
    /\ source_paths = <<>>
    /\ ws_exists = FALSE
    /\ ws_dirs = {}
    /\ ws_files = EmptyDict
    /\ exc = NoExc
    /\ invoked = <<>>
    /\ completed = EmptyDict
    /\ model_responses = <<>>
    /\ pytest_run = "none"

\* the texts of at most MaxText tokens over an alphabet
Texts(alphabet) == UNION {[1..n -> alphabet] : n \in 0..MaxText}

\* the tokens the output of mutmut results is made of
ScoreAlphabet == {"killed", "(", ")", "75%", " ", "\n"}

InitScore ==
    /\ NoPipeline
    /\ fn_pc = "mutmut_results"
    /\ fn_in \in Texts(ScoreAlphabet)
    /\ fn_out = <<>>

\* lines 186-189 on the captured output fn_in
ParseScore ==
    /\ fn_pc = "mutmut_results"
    /\ fn_out' = MutationScore(fn_in)
    /\ fn_pc' = "scored"
    /\ UNCHANGED <<pipevars, fn_in>>

NextScore == ParseScore

SpecScore == InitScore /\ [][NextScore]_vars

\* the last line of a text that has a token other than whitespace, without
\* its trailing whitespace; <<>> when there is none
LastLine(text) ==
    LET lines == Split(text, "\n")
        Solid(line) == {j \in 1..Len(line) : line[j] \notin Whitespace}
        nonblank == {k \in 1..Len(lines) : Solid(lines[k]) # {}}
        line == lines[SetMax(nonblank)]
    IN IF nonblank = {} THEN <<>> ELSE SubSeq(line, 1, SetMax(Solid(line)))

FirstParen(line) == SetMin(Positions(line, "("))

\* C13 as stated: N/A when the last non-empty line has no "killed" or no "(",
\* else the text between the first "(" and the ")" that follows it.
C13_ScoreIsTextToClosingParen ==
    fn_pc = "scored" =>
        LET line == LastLine(fn_in)
        IN IF "killed" \notin SeqRange(line) \/ "(" \notin SeqRange(line)
           THEN fn_out = NA
           ELSE LET closing == {j \in (FirstParen(line) + 1)..Len(line) : line[j] = ")"}
                IN closing # {} =>
                       fn_out = SubSeq(line, FirstParen(line) + 1, SetMin(closing) - 1)

\* C13 amended: N/A when the last non-empty line has no "killed" or no "(",
\* else the text after the first "(" up to the next ")" or "(" or the end of
\* that line, whichever comes first; no text makes the parse fail.
C13_ScoreIsTextToNextParen ==
    fn_pc = "scored" =>
        LET line == LastLine(fn_in)
        IN IF "killed" \notin SeqRange(line) \/ "(" \notin SeqRange(line)
           THEN fn_out = NA
           ELSE LET stops == {j \in (FirstParen(line) + 1)..Len(line) : line[j] \in {"(", ")"}}
                    end == IF stops = {} THEN Len(line) ELSE SetMin(stops) - 1
                IN fn_out = SubSeq(line, FirstParen(line) + 1, end)

\* a summary that ends with a killed line and a blank line was parsed
C13_Witness ==
    /\ fn_pc = "scored"
    /\ fn_in = <<"killed", "(", "75%", ")", "\n">>
    /\ fn_out = <<"75%">>

-----------------------------------------------------------------------------
(* get_grade of code_analyzer.py *)

\* a category score is between 0 and this
MaxScore == 100

GetGradeOffByOne(score) ==
    IF score > 90 THEN "A (Excellent)"
    ELSE IF score > 75 THEN "B (Good)"
    ELSE IF score > 60 THEN "C (Fair)"
    ELSE IF score > 40 THEN "D (Poor)"
    ELSE "F (Critical)"

GetGrade(score) ==
    IF score >= 90 THEN "A (Excellent)"
    ELSE IF score >= 75 THEN "B (Good)"
    ELSE IF score >= 60 THEN "C (Fair)"
    ELSE IF score >= 40 THEN "D (Poor)"
    ELSE "F (Critical)"

InitGrade ==
    /\ NoPipeline
    /\ fn_pc = "score"
    /\ fn_in \in 0..MaxScore
    /\ fn_out = <<>>

\* "grade": get_grade(score) for one category of the matrix
Grade ==
    /\ fn_pc = "score"
    /\ fn_out' = GetGrade(fn_in)
    /\ fn_pc' = "graded"
    /\ UNCHANGED <<pipevars, fn_in>>

NextGrade == Grade

SpecGrade == InitGrade /\ [][NextGrade]_vars

\* C14 as stated: "B (Good)" for every score of 75 or more, "C (Fair)" for
\* the scores from 60 up to 75.
C14_GradeBFrom75Up ==
    fn_pc = "graded" =>
        /\ fn_in >= 75 => fn_out = "B (Good)"
        /\ (fn_in >= 60 /\ fn_in < 75) => fn_out = "C (Fair)"

\* C14 amended: "B (Good)" for the scores from 75 up to 90, "C (Fair)" for
\* the scores from 60 up to 75.
C14_GradeBFrom75To90 ==
    fn_pc = "graded" =>
        /\ (fn_in >= 75 /\ fn_in < 90) => fn_out = "B (Good)"
        /\ (fn_in >= 60 /\ fn_in < 75) => fn_out = "C (Fair)"

\* the score 75, the lower edge of B, was graded
C14_Witness ==
    /\ fn_pc = "graded"
    /\ fn_in = 75
    /\ fn_out = "B (Good)"

-----------------------------------------------------------------------------
(* The code taken from a completion, lines 143-145 *)

\* the tokens a completion is made of
CompletionAlphabet == {Fence, "python", "\n", "code", "prose"}

InitClean ==
    /\ NoPipeline
    /\ fn_pc = "response_text"
    /\ fn_in \in Texts(CompletionAlphabet)
    /\ fn_out = <<>>

\* lines 143-145 on the completion text fn_in
CleanCode ==
    /\ fn_pc = "response_text"
    /\ fn_out' = CleanedCode(fn_in)
    /\ fn_pc' = "cleaned"
    /\ UNCHANGED <<pipevars, fn_in>>

NextClean == CleanCode

SpecClean == InitClean /\ [][NextClean]_vars

\* the contents of the first fenced block of a text: from the first opening
\* fence to the first fence after it; the whole text when there is no such block
FirstBlock(text) ==
    LET opens == {i \in 1..(Len(text) - 2) :
                     text[i] = Fence /\ text[i + 1] = "python" /\ text[i + 2] = "\n"}
        i == SetMin(opens)
        fences == {j \in (i + 3)..Len(text) : text[j] = Fence}
    IN IF opens # {} /\ fences # {}
       THEN SubSeq(text, i + 3, SetMin(fences) - 1)
       ELSE text

\* C15: the code that is persisted is the contents of the first fenced block
\* of the completion, stripped, with nothing of what follows that block; for
\* a completion without a fenced block it is the whole text, stripped.
C15_CodeIsFirstBlock ==
    (fn_pc = "cleaned" /\ fn_out # <<>>) => fn_out = Strip(FirstBlock(fn_in))

-----------------------------------------------------------------------------
(* Properties of _run_coverage_analysis *)

\* C16: when the pytest run left no coverage report, or one that cannot be
\* parsed, the coverage runner returns a StageResult with success = false
\* whose error is the captured output of the run; no exception leaves the
\* runner, and the pipeline goes on to the mutation stage.
C16_BadCoverageReportIsAResult ==
    pytest_run \in {"no_report", "malformed"} =>
        /\ exc.origin # "coverage"
        /\ Ran("coverage_analysis")
        /\ ~completed.coverage_analysis.success
        /\ Get(completed.coverage_analysis, "error", <<>>) = <<"pytest output">>
        /\ Returned => "mutation" \in SeqRange(invoked)

\* the test files of the AI runner in the reported list of generated tests
ReportedAiTests == Get(AiResult, "generated_tests", <<>>)

\* C17: after the AI runner has processed units with pairwise distinct
\* paths, the number of its test files in the test-output area equals
\* test_suites_generated and the length of generated_tests: no test file
\* was overwritten by that of another unit.
C17_OneTestFilePerUnit ==
    (/\ AiRunnerReturned
     /\ pc = "gate"
     /\ \A i, j \in 1..Len(file_paths) : i # j => file_paths[i] # file_paths[j])
    => /\ Cardinality(AiTestFiles) = AiResult.test_suites_generated
       /\ Cardinality(AiTestFiles) = Len(ReportedAiTests)

====
